---- MODULE Spec2Model ----
(***************************************************************************)
(* Model of src/src/App.tsx: the chat session state of the App component   *)
(* (messages, inputValue, isTyping, currentAgent), its handlers            *)
(* (handleSendMessage, handleClearChat, the agent toggle, the textarea     *)
(* onChange) and the reply normalisation done by callAgentAPI.             *)
(*                                                                         *)
(* JavaScript values are tagged records.  Strings are TLA+ strings, so     *)
(* that JSON.parse and JSON.stringify are computed character by character. *)
(* Message.id and Message.timestamp are written once and read only by the  *)
(* render (key, formatTime); they are left out of the message records.     *)
(***************************************************************************)
EXTENDS Integers, Sequences, FiniteSets

(***************************************************************************)
(* JavaScript values                                                       *)
(***************************************************************************)
Undefined == [t |-> "undefined"]
JNull == [t |-> "null"]
JStr(s) == [t |-> "str", s |-> s]
JNum(n) == [t |-> "num", n |-> n]
JBool(b) == [t |-> "bool", b |-> b]
\* an object is the sequence of its <<key, value>> members, in insertion order
JObj(members) == [t |-> "obj", f |-> members]
JArr(elems) == [t |-> "arr", a |-> elems]

\* results of an evaluation that may throw
Return(v) == [ok |-> TRUE, v |-> v]
Throw(e) == [ok |-> FALSE, err |-> e]

\* ToBoolean: what `||` tests
Truthy(v) ==
  CASE v.t = "undefined" -> FALSE
    [] v.t = "null" -> FALSE
    [] v.t = "str" -> v.s # ""
    [] v.t = "num" -> v.n # 0
    [] v.t = "bool" -> v.b
    [] OTHER -> TRUE

\* a || b
Or(a, b) == IF Truthy(a) THEN a ELSE b

IsNullish(v) == v.t \in {"undefined", "null"}

RECURSIVE Lookup(_, _, _)
\* value of the last member of `members` (from index i down) whose key is k
Lookup(members, k, i) ==
  IF i = 0 THEN Undefined
  ELSE IF members[i][1] = k THEN members[i][2]
  ELSE Lookup(members, k, i - 1)

\* v.k for a non-nullish v and k one of the field names the code reads
\* (response, content, message, result, summary): own property of an
\* object, undefined on strings, numbers, booleans and arrays
Get(v, k) == IF v.t = "obj" THEN Lookup(v.f, k, Len(v.f)) ELSE Undefined

Digits == <<"0", "1", "2", "3", "4", "5", "6", "7", "8", "9">>

RECURSIVE NatToString(_)
NatToString(n) ==
  IF n < 10 THEN Digits[n + 1]
  ELSE NatToString(n \div 10) \o Digits[(n % 10) + 1]

IntToString(n) == IF n < 0 THEN "-" \o NatToString(0 - n) ELSE NatToString(n)

\* the i-th character of s, "" past its end
Char(s, i) == IF i >= 1 /\ i <= Len(s) THEN SubSeq(s, i, i) ELSE ""

RECURSIVE JSToString(_)
RECURSIVE JoinElems(_, _)
\* Array.prototype.join(","): null and undefined elements give ""
JoinElems(a, i) ==
  IF i > Len(a) THEN ""
  ELSE (IF i > 1 THEN "," ELSE "")
       \o (IF IsNullish(a[i]) THEN "" ELSE JSToString(a[i]))
       \o JoinElems(a, i + 1)

\* ToString, the coercion JSON.parse applies to its argument
JSToString(v) ==
  CASE v.t = "undefined" -> "undefined"
    [] v.t = "null" -> "null"
    [] v.t = "str" -> v.s
    [] v.t = "num" -> IntToString(v.n)
    [] v.t = "bool" -> (IF v.b THEN "true" ELSE "false")
    [] v.t = "obj" -> "[object Object]"
    [] v.t = "arr" -> JoinElems(v.a, 1)

(***************************************************************************)
(* JSON.stringify                                                          *)
(***************************************************************************)
EscapeChar(c) ==
  CASE c = "\"" -> "\\\""
    [] c = "\\" -> "\\\\"
    [] c = "\n" -> "\\n"
    [] c = "\t" -> "\\t"
    [] OTHER -> c

RECURSIVE Escape(_, _)
Escape(s, i) == IF i > Len(s) THEN "" ELSE EscapeChar(Char(s, i)) \o Escape(s, i + 1)

Quote(s) == "\"" \o Escape(s, 1) \o "\""

RECURSIVE JSONstringify(_)
RECURSIVE StringifyMembers(_, _)
RECURSIVE StringifyElems(_, _)
StringifyMembers(m, i) ==
  IF i > Len(m) THEN ""
  ELSE (IF i > 1 THEN "," ELSE "")
       \o Quote(m[i][1]) \o ":" \o JSONstringify(m[i][2])
       \o StringifyMembers(m, i + 1)

StringifyElems(a, i) ==
  IF i > Len(a) THEN ""
  ELSE (IF i > 1 THEN "," ELSE "") \o JSONstringify(a[i]) \o StringifyElems(a, i + 1)

\* JSON.stringify of a value decoded from JSON (no undefined inside)
JSONstringify(v) ==
  CASE v.t = "null" -> "null"
    [] v.t = "str" -> Quote(v.s)
    [] v.t = "num" -> IntToString(v.n)
    [] v.t = "bool" -> (IF v.b THEN "true" ELSE "false")
    [] v.t = "obj" -> "{" \o StringifyMembers(v.f, 1) \o "}"
    [] v.t = "arr" -> "[" \o StringifyElems(v.a, 1) \o "]"

(***************************************************************************)
(* JSON.parse: a recursive-descent parser of the JSON grammar.  Numbers    *)
(* are integers (a fraction or an exponent is not accepted; no input below *)
(* has one); the escapes are \" \\ \/ \n \t.  A parse step returns         *)
(* [ok, v, i]: the value and the index after it.                           *)
(***************************************************************************)
Fail == [ok |-> FALSE, v |-> Undefined, i |-> 0]
Done(v, i) == [ok |-> TRUE, v |-> v, i |-> i]

IsWs(c) == c \in {" ", "\n", "\t", "\r"}

IsDigit(c) == c \in {"0", "1", "2", "3", "4", "5", "6", "7", "8", "9"}

DigitVal(c) == CHOOSE d \in 0..9 : Digits[d + 1] = c

RECURSIVE SkipWs(_, _)
SkipWs(s, i) == IF IsWs(Char(s, i)) THEN SkipWs(s, i + 1) ELSE i

\* s has the word w at index i
HasWord(s, i, w) == i + Len(w) - 1 <= Len(s) /\ SubSeq(s, i, i + Len(w) - 1) = w

RECURSIVE ParseStringChars(_, _, _)
\* i is past the opening quote; acc is the text read so far
ParseStringChars(s, i, acc) ==
  LET c == Char(s, i) IN
  IF c = "" \/ c \in {"\n", "\t", "\r"} THEN Fail
  ELSE IF c = "\"" THEN Done(JStr(acc), i + 1)
  ELSE IF c = "\\" THEN
    LET e == Char(s, i + 1) IN
    IF e \in {"\"", "\\", "/"} THEN ParseStringChars(s, i + 2, acc \o e)
    ELSE IF e = "n" THEN ParseStringChars(s, i + 2, acc \o "\n")
    ELSE IF e = "t" THEN ParseStringChars(s, i + 2, acc \o "\t")
    ELSE Fail
  ELSE ParseStringChars(s, i + 1, acc \o c)

RECURSIVE ParseDigits(_, _, _)
ParseDigits(s, i, acc) ==
  IF IsDigit(Char(s, i)) THEN ParseDigits(s, i + 1, 10 * acc + DigitVal(Char(s, i)))
  ELSE Done(JNum(acc), i)

\* i is at the first digit
ParseNat(s, i) ==
  LET r == IF Char(s, i) = "0" THEN Done(JNum(0), i + 1)
           ELSE IF IsDigit(Char(s, i)) THEN ParseDigits(s, i, 0)
           ELSE Fail
  IN IF r.ok /\ Char(s, r.i) \in {".", "e", "E"} THEN Fail ELSE r

\* the members with key k set to v: replaced in place, or appended
SetMember(m, k, v) ==
  IF \E j \in 1..Len(m) : m[j][1] = k
  THEN [j \in 1..Len(m) |-> IF m[j][1] = k THEN <<k, v>> ELSE m[j]]
  ELSE Append(m, <<k, v>>)

RECURSIVE ParseValue(_, _)
RECURSIVE ParseMembers(_, _, _)
RECURSIVE ParseElems(_, _, _)
\* i is at the key of the next member; m is the members read so far
ParseMembers(s, i, m) ==
  IF Char(s, i) # "\"" THEN Fail
  ELSE LET k == ParseStringChars(s, i + 1, "") IN
       IF ~k.ok THEN Fail
       ELSE LET c == SkipWs(s, k.i) IN
            IF Char(s, c) # ":" THEN Fail
            ELSE LET r == ParseValue(s, SkipWs(s, c + 1)) IN
                 IF ~r.ok THEN Fail
                 ELSE LET n == SkipWs(s, r.i)
                          m2 == SetMember(m, k.v.s, r.v)
                      IN IF Char(s, n) = "}" THEN Done(JObj(m2), n + 1)
                         ELSE IF Char(s, n) = "," THEN ParseMembers(s, SkipWs(s, n + 1), m2)
                         ELSE Fail

\* i is at the next element; a is the elements read so far
ParseElems(s, i, a) ==
  LET r == ParseValue(s, i) IN
  IF ~r.ok THEN Fail
  ELSE LET n == SkipWs(s, r.i) IN
       IF Char(s, n) = "]" THEN Done(JArr(Append(a, r.v)), n + 1)
       ELSE IF Char(s, n) = "," THEN ParseElems(s, SkipWs(s, n + 1), Append(a, r.v))
       ELSE Fail

\* i is at the first character of the value
ParseValue(s, i) ==
  LET c == Char(s, i) IN
  IF c = "{" THEN
    LET n == SkipWs(s, i + 1) IN
    IF Char(s, n) = "}" THEN Done(JObj(<<>>), n + 1) ELSE ParseMembers(s, n, <<>>)
  ELSE IF c = "[" THEN
    LET n == SkipWs(s, i + 1) IN
    IF Char(s, n) = "]" THEN Done(JArr(<<>>), n + 1) ELSE ParseElems(s, n, <<>>)
  ELSE IF c = "\"" THEN ParseStringChars(s, i + 1, "")
  ELSE IF HasWord(s, i, "null") THEN Done(JNull, i + 4)
  ELSE IF HasWord(s, i, "true") THEN Done(JBool(TRUE), i + 4)
  ELSE IF HasWord(s, i, "false") THEN Done(JBool(FALSE), i + 5)
  ELSE IF c = "-" THEN
    LET r == ParseNat(s, i + 1) IN
    IF r.ok THEN Done(JNum(0 - r.v.n), r.i) ELSE Fail
  ELSE ParseNat(s, i)

\* JSON.parse(s): the value, or a SyntaxError
JSONparse(s) ==
  LET r == ParseValue(s, SkipWs(s, 1)) IN
  IF r.ok /\ SkipWs(s, r.i) = Len(s) + 1 THEN Return(r.v) ELSE Throw("SyntaxError")

(***************************************************************************)
(* callAgentAPI                                                            *)
(***************************************************************************)
AGENT_IDS == [conversation |-> "68e116d6615699d53b623c87",
              summarization |-> "68e116e33637bc8ddc9ffb63"]

DefaultReply == "I received your message."
DefaultSummary == "Summary not available."
ErrorText == "Sorry, I encountered an error while processing your request. Please try again."

\* x?.k
OptProp(x, k) == IF IsNullish(x) THEN Undefined ELSE Get(x, k)

\* data.response || data.content || JSON.stringify(data), data not nullish
RawContent(data) ==
  Or(Get(data, "response"), Or(Get(data, "content"), JStr(JSONstringify(data))))

\* parsed.response || parsed.message || 'I received your message.'
ConversationReply(parsed) ==
  IF IsNullish(parsed) THEN Throw("TypeError")
  ELSE Return(Or(Get(parsed, "response"), Or(Get(parsed, "message"), JStr(DefaultReply))))

\* parsed.result?.summary || parsed.summary || 'Summary not available.'
SummaryReply(parsed) ==
  IF IsNullish(parsed) THEN Throw("TypeError")
  ELSE Return(Or(OptProp(Get(parsed, "result"), "summary"),
                 Or(Get(parsed, "summary"), JStr(DefaultSummary))))

\* the try block of callAgentAPI
TryBlock(agentId, data) ==
  IF IsNullish(data) THEN Throw("TypeError")
  ELSE LET parsed == JSONparse(JSToString(RawContent(data))) IN
       IF ~parsed.ok THEN parsed
       ELSE IF agentId = AGENT_IDS.conversation THEN ConversationReply(parsed.v)
       ELSE SummaryReply(parsed.v)

\* variant: a catch block that always answers with the default string
CatchBlock_DefaultOnly(data) ==
  IF IsNullish(data) THEN Throw("TypeError") ELSE Return(JStr(DefaultReply))

\* variant: the catch block reads message before response
CatchBlock_MessageFirst(data) ==
  IF IsNullish(data) THEN Throw("TypeError")
  ELSE Return(Or(Get(data, "message"), Or(Get(data, "response"), JStr(DefaultReply))))

\* the catch block of callAgentAPI
CatchBlock(data) ==
  IF IsNullish(data) THEN Throw("TypeError")
  ELSE Return(Or(Get(data, "response"), Or(Get(data, "message"), JStr(DefaultReply))))

\* the normalisation of a decoded body: try, and catch on any throw
Normalize(agentId, data) ==
  LET r == TryBlock(agentId, data) IN IF r.ok THEN r ELSE CatchBlock(data)

\* What fetch settles with: a rejection, or a response with a status and
\* a body text.
NetworkError == [kind |-> "reject", ok |-> FALSE, status |-> 0, text |-> ""]
HttpResponse(status, text) ==
  [kind |-> "response", ok |-> (status >= 200 /\ status <= 299), status |-> status, text |-> text]

\* response.json()
ResponseJson(reply) == JSONparse(reply.text)

\* variant: the status of the response is not tested
callAgentAPI_NoStatusCheck(agentId, reply) ==
  IF reply.kind = "reject" THEN Throw("NetworkError")
  ELSE LET data == ResponseJson(reply) IN
       IF ~data.ok THEN data ELSE Normalize(agentId, data.v)

\* callAgentAPI from the point where fetch settles with `reply`
callAgentAPI(agentId, reply) ==
  IF reply.kind = "reject" THEN Throw("NetworkError")
  ELSE IF ~reply.ok THEN Throw("HTTP error")
  ELSE LET data == ResponseJson(reply) IN
       IF ~data.ok THEN data ELSE Normalize(agentId, data.v)

\* the JSON body of the request callAgentAPI posts
RequestBody(user, agentId, rnd, message) ==
  [user_id |-> user, agent_id |-> agentId,
   session_id |-> agentId \o "-" \o rnd, message |-> message]

(***************************************************************************)
(* The App component                                                       *)
(***************************************************************************)
\* bound on the number of transport calls issued in a run
MaxCalls == 2

\* outcomes of Math.random().toString(36).substring(2, 15)
RandomIds == {"k3x9q", "z81qa"}

\* texts the user may leave in the textarea
Texts == {"", " \n", " hi "}

\* what the remote endpoint may answer to a call of the session
Replies ==
  { NetworkError,
    HttpResponse(500, "{}"),
    HttpResponse(200, "<html>"),
    HttpResponse(200, "{}"),
    HttpResponse(200, "null") }

VARIABLES
  messages,      \* useState<Message[]>([])
  inputValue,    \* useState('')
  isTyping,      \* useState(false)
  userId,        \* useState(generateRandomUserId())
  currentAgent,  \* useState('conversation')
  pending,       \* the handleSendMessage invocations suspended at the await
  nCalls,        \* number of transport calls issued so far
  replied,       \* history: replied[c] = agent turns appended by call c
  last,          \* history: the step taken last
  norm           \* one callAgentAPI continuation, stepped through its blocks

vars == <<messages, inputValue, isTyping, userId, currentAgent, pending,
          nCalls, replied, last, norm>>

RECURSIVE TrimStart(_)
TrimStart(s) == IF IsWs(Char(s, 1)) THEN TrimStart(SubSeq(s, 2, Len(s))) ELSE s

RECURSIVE TrimEnd(_)
TrimEnd(s) == IF IsWs(Char(s, Len(s))) THEN TrimEnd(SubSeq(s, 1, Len(s) - 1)) ELSE s

\* String.prototype.trim
Trim(s) == TrimEnd(TrimStart(s))

generateRandomUserId(rnd) == "user" \o rnd \o "@test.com"

UserMessage(text) == [content |-> JStr(text), sender |-> "user", error |-> FALSE]
AgentMessage(response) == [content |-> response, sender |-> "agent", error |-> FALSE]
ErrorMessage == [content |-> JStr(ErrorText), sender |-> "agent", error |-> TRUE]

\* currentAgent === 'conversation' ? AGENT_IDS.conversation : AGENT_IDS.summarization
AgentIdOf(agent) ==
  IF agent = "conversation" THEN AGENT_IDS.conversation ELSE AGENT_IDS.summarization

Event(e, c, k) == [event |-> e, call |-> c, kind |-> k]

NormIdle == [pc |-> "idle", agentId |-> "", reply |-> NetworkError,
             data |-> Undefined, result |-> Undefined]

Init ==
  /\ messages = <<>>
  /\ inputValue = ""
  /\ isTyping = FALSE
  /\ userId \in {generateRandomUserId(r) : r \in RandomIds}
  /\ currentAgent = "conversation"
  /\ pending = {}
  /\ nCalls = 0
  /\ replied = [c \in 1..MaxCalls |-> 0]
  /\ last = Event("init", 0, "")
  /\ norm = NormIdle

\* textarea onChange: setInputValue(e.target.value)
ChangeInput(text) ==
  /\ text # inputValue
  /\ inputValue' = text
  /\ last' = Event("change", 0, "")
  /\ UNCHANGED <<messages, isTyping, userId, currentAgent, pending, nCalls, replied, norm>>

\* variant: the early return tests inputValue without trimming it
handleSendMessage_NoTrim ==
  IF inputValue = ""
  THEN /\ last' = Event("blank", 0, "")
       /\ UNCHANGED <<messages, inputValue, isTyping, userId, currentAgent,
                      pending, nCalls, replied, norm>>
  ELSE /\ nCalls < MaxCalls
       /\ \E rnd \in RandomIds :
            LET agentId == AgentIdOf(currentAgent) IN
            pending' = pending \cup
              {[call |-> nCalls + 1, agentId |-> agentId,
                request |-> RequestBody(userId, agentId, rnd, inputValue)]}
       /\ messages' = Append(messages, UserMessage(inputValue))
       /\ inputValue' = ""
       /\ isTyping' = TRUE
       /\ nCalls' = nCalls + 1
       /\ last' = Event("submit", nCalls + 1, "")
       /\ UNCHANGED <<userId, currentAgent, replied, norm>>

\* variant: the user turn is put in front of the thread
handleSendMessage_Prepend ==
  IF Trim(inputValue) = ""
  THEN /\ last' = Event("blank", 0, "")
       /\ UNCHANGED <<messages, inputValue, isTyping, userId, currentAgent,
                      pending, nCalls, replied, norm>>
  ELSE /\ nCalls < MaxCalls
       /\ \E rnd \in RandomIds :
            LET agentId == AgentIdOf(currentAgent) IN
            pending' = pending \cup
              {[call |-> nCalls + 1, agentId |-> agentId,
                request |-> RequestBody(userId, agentId, rnd, inputValue)]}
       /\ messages' = <<UserMessage(inputValue)>> \o messages
       /\ inputValue' = ""
       /\ isTyping' = TRUE
       /\ nCalls' = nCalls + 1
       /\ last' = Event("submit", nCalls + 1, "")
       /\ UNCHANGED <<userId, currentAgent, replied, norm>>

\* variant: the typing flag is not set
handleSendMessage_NoTyping ==
  IF Trim(inputValue) = ""
  THEN /\ last' = Event("blank", 0, "")
       /\ UNCHANGED <<messages, inputValue, isTyping, userId, currentAgent,
                      pending, nCalls, replied, norm>>
  ELSE /\ nCalls < MaxCalls
       /\ \E rnd \in RandomIds :
            LET agentId == AgentIdOf(currentAgent) IN
            pending' = pending \cup
              {[call |-> nCalls + 1, agentId |-> agentId,
                request |-> RequestBody(userId, agentId, rnd, inputValue)]}
       /\ messages' = Append(messages, UserMessage(inputValue))
       /\ inputValue' = ""
       /\ UNCHANGED isTyping
       /\ nCalls' = nCalls + 1
       /\ last' = Event("submit", nCalls + 1, "")
       /\ UNCHANGED <<userId, currentAgent, replied, norm>>

\* handleSendMessage up to its await: the early return on blank input, or
\* the user turn, the cleared input, the typing flag and the posted request
handleSendMessage ==
  IF Trim(inputValue) = ""
  THEN /\ last' = Event("blank", 0, "")
       /\ UNCHANGED <<messages, inputValue, isTyping, userId, currentAgent,
                      pending, nCalls, replied, norm>>
  ELSE /\ nCalls < MaxCalls
       /\ \E rnd \in RandomIds :
            LET agentId == AgentIdOf(currentAgent) IN
            pending' = pending \cup
              {[call |-> nCalls + 1, agentId |-> agentId,
                request |-> RequestBody(userId, agentId, rnd, inputValue)]}
       /\ messages' = Append(messages, UserMessage(inputValue))
       /\ inputValue' = ""
       /\ isTyping' = TRUE
       /\ nCalls' = nCalls + 1
       /\ last' = Event("submit", nCalls + 1, "")
       /\ UNCHANGED <<userId, currentAgent, replied, norm>>

\* how the awaited call of an invocation ended
ReplyKind(reply) ==
  IF reply.kind = "reject" THEN "reject"
  ELSE IF ~reply.ok THEN "http"
  ELSE IF ~ResponseJson(reply).ok THEN "decode"
  ELSE "decoded"

\* variant: the reply is normalised for the agent selected when it arrives
Settle_CurrentAgent(p, reply) ==
  /\ p \in pending
  /\ LET response == callAgentAPI(AgentIdOf(currentAgent), reply) IN
     /\ messages' = Append(messages,
                        IF response.ok THEN AgentMessage(response.v) ELSE ErrorMessage)
     /\ replied' = [replied EXCEPT ![p.call] = @ + 1]
  /\ isTyping' = FALSE
  /\ pending' = pending \ {p}
  /\ last' = Event("settle", p.call, ReplyKind(reply))
  /\ UNCHANGED <<inputValue, userId, currentAgent, nCalls, norm>>

\* variant: the typing flag is not reset when the call settles
Settle_NoFinally(p, reply) ==
  /\ p \in pending
  /\ LET response == callAgentAPI(p.agentId, reply) IN
     /\ messages' = Append(messages,
                        IF response.ok THEN AgentMessage(response.v) ELSE ErrorMessage)
     /\ replied' = [replied EXCEPT ![p.call] = @ + 1]
  /\ UNCHANGED isTyping
  /\ pending' = pending \ {p}
  /\ last' = Event("settle", p.call, ReplyKind(reply))
  /\ UNCHANGED <<inputValue, userId, currentAgent, nCalls, norm>>

\* variant: a failed call appends no turn
Settle_SilentFailure(p, reply) ==
  /\ p \in pending
  /\ LET response == callAgentAPI(p.agentId, reply) IN
     /\ messages' = IF response.ok THEN Append(messages, AgentMessage(response.v)) ELSE messages
     /\ replied' = [replied EXCEPT ![p.call] = @ + (IF response.ok THEN 1 ELSE 0)]
  /\ isTyping' = FALSE
  /\ pending' = pending \ {p}
  /\ last' = Event("settle", p.call, ReplyKind(reply))
  /\ UNCHANGED <<inputValue, userId, currentAgent, nCalls, norm>>

\* variant: the error turn is appended in the catch and again in the finally
Settle_ErrorTurnTwice(p, reply) ==
  /\ p \in pending
  /\ LET response == callAgentAPI(p.agentId, reply) IN
     /\ messages' = IF response.ok THEN Append(messages, AgentMessage(response.v))
                    ELSE Append(Append(messages, ErrorMessage), ErrorMessage)
     /\ replied' = [replied EXCEPT ![p.call] = @ + (IF response.ok THEN 1 ELSE 2)]
  /\ isTyping' = FALSE
  /\ pending' = pending \ {p}
  /\ last' = Event("settle", p.call, ReplyKind(reply))
  /\ UNCHANGED <<inputValue, userId, currentAgent, nCalls, norm>>

\* variant: a reply that finds the thread emptied is dropped
Settle_DropAfterClear(p, reply) ==
  /\ p \in pending
  /\ LET response == callAgentAPI(p.agentId, reply) IN
     messages' = IF messages = <<>> THEN messages
                 ELSE Append(messages,
                        IF response.ok THEN AgentMessage(response.v) ELSE ErrorMessage)
  /\ isTyping' = FALSE
  /\ pending' = pending \ {p}
  /\ replied' = [replied EXCEPT ![p.call] = @ + (IF messages = <<>> THEN 0 ELSE 1)]
  /\ last' = Event("settle", p.call, ReplyKind(reply))
  /\ UNCHANGED <<inputValue, userId, currentAgent, nCalls, norm>>

\* handleSendMessage after its await, for the invocation p whose fetch
\* settles with reply: the agent turn or the error turn, then the finally
Settle(p, reply) ==
  /\ p \in pending
  /\ LET response == callAgentAPI(p.agentId, reply) IN
     messages' = Append(messages,
                        IF response.ok THEN AgentMessage(response.v) ELSE ErrorMessage)
  /\ isTyping' = FALSE
  /\ pending' = pending \ {p}
  /\ replied' = [replied EXCEPT ![p.call] = @ + 1]
  /\ last' = Event("settle", p.call, ReplyKind(reply))
  /\ UNCHANGED <<inputValue, userId, currentAgent, nCalls, norm>>

SettleCall(c) == \E p \in pending, reply \in Replies : p.call = c /\ Settle(p, reply)

\* variant: the typing flag is left as it was
handleClearChat_KeepsTyping ==
  /\ messages' = <<>>
  /\ UNCHANGED isTyping
  /\ last' = Event("clear", 0, "")
  /\ UNCHANGED <<inputValue, userId, currentAgent, pending, nCalls, replied, norm>>

handleClearChat ==
  /\ messages' = <<>>
  /\ isTyping' = FALSE
  /\ last' = Event("clear", 0, "")
  /\ UNCHANGED <<inputValue, userId, currentAgent, pending, nCalls, replied, norm>>

\* variant: switching the agent also empties the thread
ToggleAgent_ClearsThread ==
  /\ currentAgent' = IF currentAgent = "conversation" THEN "summarization" ELSE "conversation"
  /\ messages' = <<>>
  /\ last' = Event("toggle", 0, "")
  /\ UNCHANGED <<inputValue, isTyping, userId, pending, nCalls, replied, norm>>

\* the agent button: setCurrentAgent(the other agent)
ToggleAgent ==
  /\ currentAgent' = IF currentAgent = "conversation" THEN "summarization" ELSE "conversation"
  /\ last' = Event("toggle", 0, "")
  /\ UNCHANGED <<messages, inputValue, isTyping, userId, pending, nCalls, replied, norm>>

Next ==
  \/ \E text \in Texts : ChangeInput(text)
  \/ handleSendMessage
  \/ \E c \in 1..MaxCalls : SettleCall(c)
  \/ handleClearChat
  \/ ToggleAgent

Spec == Init /\ [][Next]_vars

\* every awaited fetch settles
FairSpec == Spec /\ \A c \in 1..MaxCalls : WF_vars(SettleCall(c))

\* the runs in which Clear Chat is never clicked
NextNoClear ==
  \/ \E text \in Texts : ChangeInput(text)
  \/ handleSendMessage
  \/ \E c \in 1..MaxCalls : SettleCall(c)
  \/ ToggleAgent

SpecNoClear == Init /\ [][NextNoClear]_vars

(***************************************************************************)
(* One callAgentAPI continuation, block by block, over a larger set of     *)
(* replies: fetch settles, the status is tested and the body decoded, the  *)
(* try block runs, and the catch block runs if the try block threw.        *)
(***************************************************************************)
ScenarioA == "{\"response\": \"{\\\"response\\\":\\\"Hi there\\\"}\"}"
ScenarioB == "{\"content\": \"{\\\"result\\\":{\\\"summary\\\":\\\"Short summary.\\\"}}\"}"
ScenarioC == "{\"response\": \"not json\"}"

Obj1(k, v) == JObj(<< <<k, v>> >>)
Obj2(k1, v1, k2, v2) == JObj(<< <<k1, v1>>, <<k2, v2>> >>)

\* values the inner JSON text of a reply may encode
InnerValues ==
  { Obj1("response", JStr("Hi there")),
    Obj1("message", JStr("Hello")),
    Obj2("response", JStr(""), "message", JStr("Hello")),
    JObj(<<>>),
    Obj1("result", Obj1("summary", JStr("Short summary."))),
    Obj1("summary", JStr("Top")),
    Obj2("result", JObj(<<>>), "summary", JStr("Top")),
    Obj2("result", JNull, "summary", JStr("Top")),
    Obj2("result", Obj1("summary", JStr("")), "summary", JStr("Top")),
    Obj1("result", JStr("text")),
    JNull, JNum(5), JNum(0), JStr("str"), JArr(<<>>), JBool(FALSE) }

\* the content strings of a reply: JSON texts and texts that are not JSON
InnerTexts == {JSONstringify(v) : v \in InnerValues} \cup {"not json", "Hello world", ""}

\* decoded bodies
Bodies ==
  {Obj1("response", JStr(t)) : t \in InnerTexts}
  \cup {Obj1("content", JStr(t)) : t \in InnerTexts}
  \cup { Obj2("response", JStr("not json"), "message", JStr("M")),
         Obj2("content", JStr("not json"), "message", JStr("M")),
         Obj2("response", JStr(""), "content", JStr("{\"response\":\"Hi there\"}")),
         Obj2("message", JStr("M"), "response", JStr("{\"message\":\"inner\"}")),
         Obj1("message", JStr("M")),
         Obj1("summary", JStr("S")),
         Obj1("result", Obj1("summary", JStr("S"))),
         JObj(<<>>), JNull, JNum(5), JStr("str"), JArr(<<>>), JBool(FALSE) }

BodyTexts ==
  {JSONstringify(b) : b \in Bodies} \cup {ScenarioA, ScenarioB, ScenarioC, "<html>", ""}

NormReplies ==
  {HttpResponse(200, t) : t \in BodyTexts}
  \cup {NetworkError, HttpResponse(500, "{}"), HttpResponse(404, ScenarioA)}

AgentIds == {AGENT_IDS.conversation, AGENT_IDS.summarization}

InitNorm ==
  /\ messages = <<>>
  /\ inputValue = ""
  /\ isTyping = FALSE
  /\ userId \in {generateRandomUserId(r) : r \in RandomIds}
  /\ currentAgent = "conversation"
  /\ pending = {}
  /\ nCalls = 0
  /\ replied = [c \in 1..MaxCalls |-> 0]
  /\ last = Event("init", 0, "")
  /\ \E a \in AgentIds, r \in NormReplies :
       norm = [pc |-> "fetching", agentId |-> a, reply |-> r,
               data |-> Undefined, result |-> Undefined]

session == <<messages, inputValue, isTyping, userId, currentAgent, pending,
             nCalls, replied, last>>

\* await fetch(...)
NormFetch ==
  /\ norm.pc = "fetching"
  /\ norm' = [norm EXCEPT !.pc = IF norm.reply.kind = "reject" THEN "thrown" ELSE "responded"]
  /\ UNCHANGED session

\* if (!response.ok) throw ...; const data = await response.json()
NormDecode ==
  /\ norm.pc = "responded"
  /\ norm' = IF ~norm.reply.ok THEN [norm EXCEPT !.pc = "thrown"]
             ELSE LET data == ResponseJson(norm.reply) IN
                  IF data.ok THEN [norm EXCEPT !.pc = "decoded", !.data = data.v]
                  ELSE [norm EXCEPT !.pc = "thrown"]
  /\ UNCHANGED session

\* try { ... }
NormTry ==
  /\ norm.pc = "decoded"
  /\ LET r == TryBlock(norm.agentId, norm.data) IN
     norm' = IF r.ok THEN [norm EXCEPT !.pc = "returned", !.result = r.v]
             ELSE [norm EXCEPT !.pc = "caught"]
  /\ UNCHANGED session

\* catch (error) { ... }
NormCatch ==
  /\ norm.pc = "caught"
  /\ LET r == CatchBlock(norm.data) IN
     norm' = IF r.ok THEN [norm EXCEPT !.pc = "returned", !.result = r.v]
             ELSE [norm EXCEPT !.pc = "thrown"]
  /\ UNCHANGED session

NextNorm == NormFetch \/ NormDecode \/ NormTry \/ NormCatch

SpecNorm == InitNorm /\ [][NextNorm]_vars

(***************************************************************************)
(* Properties of the session                                               *)
(***************************************************************************)
Last(seq) == seq[Len(seq)]

AgentTurns(seq) == Cardinality({i \in 1..Len(seq) : seq[i].sender = "agent"})

\* C1: a submission of non-blank text made while a transport call is
\* outstanding is ignored, so at most one transport call is outstanding in
\* every reachable state.
C1_AtMostOneOutstanding == Cardinality(pending) <= 1

\* C2: a submit of non-blank text appends exactly one user turn with that
\* text at the end of the thread in the submit step, clears the input and
\* sets the typing flag; no call ever appends two agent turns; and every
\* issued call eventually has appended exactly one agent turn.
C2_OneUserTurnOneAgentTurn ==
  /\ [][last'.event = "submit" =>
          /\ Trim(inputValue) # ""
          /\ messages' = Append(messages, UserMessage(inputValue))
          /\ inputValue' = ""
          /\ isTyping'
          /\ Cardinality(pending') = Cardinality(pending) + 1]_vars
  /\ [][\A c \in 1..MaxCalls :
          /\ replied'[c] <= 1
          /\ replied'[c] # replied[c] =>
               /\ Len(messages') = Len(messages) + 1
               /\ Last(messages').sender = "agent"
               /\ AgentTurns(messages') = AgentTurns(messages) + 1]_vars
  /\ \A c \in 1..MaxCalls : (nCalls >= c) ~> (replied[c] = 1)

\* a call has been issued and has appended its one agent turn
C2_Witness == nCalls = MaxCalls /\ pending = {} /\ \A c \in 1..MaxCalls : replied[c] = 1

\* C3: clear chat is enabled in every state, and the state right after it
\* has an empty thread and the typing flag off.
C3_ClearResets ==
  /\ ENABLED handleClearChat
  /\ last.event = "clear" => (messages = <<>> /\ isTyping = FALSE)

\* a clear issued while a call was outstanding
C3_Witness == last.event = "clear" /\ pending # {} /\ nCalls = MaxCalls

\* C4: a call outstanding across a clear is not cancelled: when it settles
\* its agent turn is appended to the thread as it is then, which so ends
\* with that agent turn.
C4_LateReplyAppended ==
  [][/\ last'.event = "clear" => pending' = pending
     /\ \A p \in pending :
       (p \notin pending') =>
         /\ last'.event = "settle" /\ last'.call = p.call
         /\ \E reply \in Replies :
              LET response == callAgentAPI(p.agentId, reply) IN
              /\ last'.kind = ReplyKind(reply)
              /\ messages' = Append(messages,
                   IF response.ok THEN AgentMessage(response.v) ELSE ErrorMessage)]_vars

\* the thread holds nothing but the agent turn of a call that was
\* outstanding when the thread was cleared
C4_Witness ==
  /\ last.event = "settle"
  /\ Len(messages) = 1
  /\ messages[1].sender = "agent"

\* C5: when the transport call of a submission rejects (network error,
\* non-success status, undecodable body) the thread gains exactly one agent
\* turn, with error set and the fixed text, and the typing flag is off.
C5_FailureTurn ==
  [][(last'.event = "settle" /\ last'.kind \in {"reject", "http", "decode"}) =>
       /\ messages' = Append(messages,
            [content |-> JStr("Sorry, I encountered an error while processing your request. Please try again."),
             sender |-> "agent", error |-> TRUE])
       /\ isTyping' = FALSE]_vars

C5_Witness ==
  /\ last.event = "settle" /\ last.kind = "decode"
  /\ Len(messages) = 2 /\ Last(messages) = ErrorMessage

\* C6: a successfully decoded body never gives a failed turn: the error
\* flag is set only on agent turns appended after a transport failure,
\* never on a user turn.
C6_ErrorOnlyOnTransportFailure ==
  /\ (last.event = "settle" /\ last.kind = "decoded") => ~Last(messages).error
  /\ \A i \in 1..Len(messages) : messages[i].error => messages[i].sender = "agent"

\* a decoded body with no reply field gave the default placeholder
C6_Witness ==
  /\ last.event = "settle" /\ last.kind = "decoded"
  /\ Last(messages) = AgentMessage(JStr(DefaultReply))

(***************************************************************************)
(* Properties of the normalisation                                         *)
(***************************************************************************)
NormEnded == norm.pc \in {"returned", "thrown"}

\* the body was decoded (response.json() returned it)
NormDecoded == NormEnded /\ norm.data # Undefined

NonEmptyString(v) == v.t = "str" /\ v.s # ""

\* field k of v is present and non-empty
Present(v, k) == NonEmptyString(Get(v, k))

\* the content of a body: its response field, else its content field,
\* else the serialized body
ContentOf(data) ==
  IF Present(data, "response") THEN Get(data, "response").s
  ELSE IF Present(data, "content") THEN Get(data, "content").s
  ELSE JSONstringify(data)

\* v has the reply field expected of the agent
HasReply(agentId, v) ==
  IF agentId = AGENT_IDS.conversation
  THEN Present(v, "response") \/ Present(v, "message")
  ELSE Present(Get(v, "result"), "summary") \/ Present(v, "summary")

\* a malformed or partial body: no response/content field, content that
\* is not JSON, or JSON content lacking the expected reply field
Malformed(agentId, data) ==
  \/ ~Present(data, "response") /\ ~Present(data, "content")
  \/ ~JSONparse(ContentOf(data)).ok
  \/ ~HasReply(agentId, JSONparse(ContentOf(data)).v)

\* C7: for every decoded body that is malformed or partial, and for both
\* agents, the normalizer returns a non-empty display string and never
\* throws.
C7_FallbackComplete ==
  (NormDecoded /\ Malformed(norm.agentId, norm.data)) =>
    (norm.pc = "returned" /\ NonEmptyString(norm.result))

\* C8 as stated: for the conversational agent and the raw body
\* {"response": "not json"} the display text is the default placeholder.
C8_ScenarioC_Default ==
  (NormEnded /\ norm.agentId = AGENT_IDS.conversation
     /\ norm.reply = HttpResponse(200, ScenarioC)) =>
    (norm.pc = "returned" /\ norm.result = JStr("I received your message."))

\* C8 amended: for the conversational agent and the raw body
\* {"response": "not json"} the display text is the body's own response
\* field, "not json"; the default placeholder is displayed for a body whose
\* content is not JSON and that has no response and no message field, such
\* as {"content":"not json"}.
C8_ScenarioC_TopLevelResponse ==
  /\ (NormEnded /\ norm.agentId = AGENT_IDS.conversation
        /\ norm.reply = HttpResponse(200, ScenarioC)) =>
       (norm.pc = "returned" /\ norm.result = JStr("not json"))
  /\ (NormEnded /\ norm.agentId = AGENT_IDS.conversation
        /\ norm.reply = HttpResponse(200, "{\"content\":\"not json\"}")) =>
       (norm.pc = "returned" /\ norm.result = JStr("I received your message."))

C8_Witness ==
  /\ norm.pc = "returned" /\ norm.agentId = AGENT_IDS.conversation
  /\ norm.reply = HttpResponse(200, ScenarioC)
  /\ norm.data = Obj1("response", JStr("not json"))

\* C9: for the conversational agent and a decoded body other than null,
\* when the content (response field, else content field, else serialized
\* body) parses as JSON, the display text is the parsed value's response
\* field if present and non-empty, else its message field, else the
\* default; Scenario A yields "Hi there".
C9_ConversationReply ==
  (NormDecoded /\ norm.agentId = AGENT_IDS.conversation /\ norm.data # JNull) =>
    LET parsed == JSONparse(ContentOf(norm.data)) IN
    /\ parsed.ok =>
         /\ norm.pc = "returned"
         /\ norm.result =
              IF Present(parsed.v, "response") THEN Get(parsed.v, "response")
              ELSE IF Present(parsed.v, "message") THEN Get(parsed.v, "message")
              ELSE JStr("I received your message.")
    /\ norm.reply.text = ScenarioA => norm.result = JStr("Hi there")

\* C10: for the summarization agent and a decoded body other than null,
\* when the content parses as JSON, the display text is the nested
\* result.summary if present and non-empty, else the top-level summary,
\* else 'Summary not available.', and nothing is thrown; Scenario B yields
\* "Short summary.".
C10_SummaryReply ==
  (NormDecoded /\ norm.agentId = AGENT_IDS.summarization /\ norm.data # JNull) =>
    LET parsed == JSONparse(ContentOf(norm.data)) IN
    /\ parsed.ok =>
         /\ norm.pc = "returned"
         /\ norm.result =
              IF Present(Get(parsed.v, "result"), "summary")
              THEN Get(Get(parsed.v, "result"), "summary")
              ELSE IF Present(parsed.v, "summary") THEN Get(parsed.v, "summary")
              ELSE JStr("Summary not available.")
    /\ norm.reply.text = ScenarioB => norm.result = JStr("Short summary.")

(***************************************************************************)
(* Further properties of the session and of the normalisation              *)
(***************************************************************************)
\* C11: submitting empty or whitespace-only text is a no-op in every
\* state: the step taken from blank input is the early return, and it
\* leaves the thread, the typing flag, the input text and the outstanding
\* calls unchanged.
C11_BlankSubmitNoOp ==
  [][((Trim(inputValue) = "" /\ last'.event = "submit") \/ last'.event = "blank") =>
       /\ last'.event = "blank"
       /\ Trim(inputValue) = ""
       /\ UNCHANGED <<messages, isTyping, inputValue, pending>>]_vars

\* whitespace-only text submitted while a call is outstanding
C11_Witness ==
  /\ last.event = "blank" /\ inputValue = " \n"
  /\ isTyping /\ pending # {} /\ Len(messages) = 1

\* C12: when parsing the extracted content as JSON fails, the display text
\* is the top-level body's response field, else its message field, else
\* 'I received your message.', for the conversational and for the
\* summarization agent alike.
C12_ParseFailureFallback ==
  (NormDecoded /\ norm.data # JNull /\ ~JSONparse(ContentOf(norm.data)).ok) =>
    /\ norm.pc = "returned"
    /\ norm.result =
         IF Present(norm.data, "response") THEN Get(norm.data, "response")
         ELSE IF Present(norm.data, "message") THEN Get(norm.data, "message")
         ELSE JStr("I received your message.")
    /\ norm.result # JStr("Summary not available.")

\* the summarization agent, content that is not JSON, no response and no
\* message field
C12_Witness ==
  /\ norm.pc = "returned" /\ norm.agentId = AGENT_IDS.summarization
  /\ norm.data = Obj1("content", JStr("not json"))
  /\ norm.result = JStr("I received your message.")

\* C13: every step leaves the thread unchanged, appends exactly one turn
\* at its end keeping the turns it had, or (clear) resets it to empty.
C13_AppendOnly ==
  [][\/ messages' = messages
     \/ /\ Len(messages') = Len(messages) + 1
        /\ SubSeq(messages', 1, Len(messages)) = messages
        /\ last'.event \in {"submit", "settle"}
     \/ /\ messages' = <<>>
        /\ last'.event = "clear"]_vars

\* a thread grown to two turns per call
C13_Witness == Len(messages) = 2 * MaxCalls /\ messages[1].sender = "user"

\* C14 as stated: in every reachable state in which a transport call is
\* outstanding, the typing flag is true.
C14_BusyWhileOutstanding == pending # {} => isTyping

\* C14 amended: the typing flag is true in the state after every submit,
\* it becomes true only in a submit step, and it becomes false only in a
\* step where a transport call settles or where clear chat is issued; so a
\* call can be outstanding with the flag false after a clear chat.
C14_TypingFlagSteps ==
  [][/\ last'.event = "submit" => isTyping'
     /\ (isTyping /\ ~isTyping') => last'.event \in {"settle", "clear"}
     /\ (~isTyping /\ isTyping') => last'.event = "submit"]_vars

\* the user types while a call is outstanding and the flag is off
C14_Witness == last.event = "change" /\ pending # {} /\ ~isTyping /\ messages = <<>>

UserTurns(seq) == Cardinality({i \in 1..Len(seq) : seq[i].sender = "user"})

\* C15: the thread and the typing flag change only in submit, settle and
\* clear steps; a switch-agent step changes the agent selection and leaves
\* the thread, the typing flag, the input text and the outstanding calls
\* unchanged.
C15_ToggleFrame ==
  [][/\ last'.event = "toggle" =>
          /\ currentAgent' # currentAgent
          /\ UNCHANGED <<messages, isTyping, inputValue, pending>>
     /\ (messages' # messages \/ isTyping' # isTyping) =>
          last'.event \in {"submit", "settle", "clear"}]_vars

\* the agent switched while a call is outstanding
C15_Witness ==
  /\ last.event = "toggle" /\ currentAgent = "summarization"
  /\ pending # {} /\ isTyping /\ Len(messages) = 1

\* C16: the agent of a submission is fixed at submit time: the request
\* carries the identifier of the agent selected then, its session
\* identifier starts with that identifier, an outstanding call is not
\* altered by later steps, and the reply is normalised for the agent of the
\* request, whatever agent is selected when the call settles.
C16_AgentFixedAtSubmit ==
  [][/\ last'.event = "submit" =>
          \E p \in pending' \ pending :
            /\ pending' = pending \cup {p}
            /\ p.agentId = AgentIdOf(currentAgent)
            /\ p.request.agent_id = AgentIdOf(currentAgent)
            /\ \E rnd \in RandomIds :
                 p.request.session_id = AgentIdOf(currentAgent) \o "-" \o rnd
     /\ last'.event # "submit" => pending' \subseteq pending
     /\ last'.event = "settle" =>
          \E p \in pending \ pending', reply \in Replies :
            LET response == callAgentAPI(p.request.agent_id, reply) IN
            /\ last'.kind = ReplyKind(reply)
            /\ Last(messages') =
                 IF response.ok THEN AgentMessage(response.v) ELSE ErrorMessage]_vars

\* a call submitted to the conversational agent settles, with that agent's
\* default text, after the user switched to the summarization agent
C16_Witness ==
  /\ last.event = "settle" /\ last.kind = "decoded"
  /\ currentAgent = "summarization"
  /\ Last(messages) = AgentMessage(JStr("I received your message."))

\* C17: whenever the typing flag is true at least one transport call is
\* outstanding; once every issued call has settled the flag is false.
C17_TypingImpliesOutstanding == isTyping => pending # {}

\* every call has settled, the last one just now
C17_Witness ==
  /\ last.event = "settle" /\ nCalls = MaxCalls /\ pending = {} /\ ~isTyping

\* C18: in a run without clear chat, the agent turns of the thread never
\* outnumber the user turns, the difference is the number of outstanding
\* calls, and the counts are equal when no call is outstanding.
C18_TurnBalance ==
  /\ AgentTurns(messages) <= UserTurns(messages)
  /\ UserTurns(messages) - AgentTurns(messages) = Cardinality(pending)
  /\ pending = {} => AgentTurns(messages) = UserTurns(messages)

\* two calls outstanding, then one of them settled
C18_Witness ==
  /\ Cardinality(pending) = 1 /\ UserTurns(messages) = 2 /\ AgentTurns(messages) = 1
  /\ Last(messages).sender = "agent"

====
